---- MODULE Spec2Model ----
(***************************************************************************)
(* The Copilot sign-in modal, crates/copilot_ui/src/sign_in.rs:            *)
(* CopilotCodeVerification.  The modal stores a snapshot of the provider's *)
(* Status and a connect_clicked flag; it is mutated by the observe         *)
(* callback registered in new, by render, and by the click handlers that   *)
(* render installs on the elements it returns.  A click handler is a       *)
(* closure built by the last render: it carries the values captured then.  *)
(***************************************************************************)
EXTENDS Integers, Sequences, FiniteSets, TLC

\* Number of distinct device codes the provider may hand out.
MaxCode == 2
\* Number of distinct verification URIs the provider may hand out.
MaxUri == 2
\* Number of distinct error messages carried by Status::Error.
MaxMsg == 2

\* The sign-up URL; verification URIs are 1..MaxUri.
COPILOT_SIGN_UP_URL == 0

UserCode == 1..MaxCode
VerificationUri == 1..MaxUri
\* Clipboard texts: 0 is the empty string, the others are the user codes.
Text == 0..MaxCode

PromptUserDeviceFlow == [user_code : UserCode, verification_uri : VerificationUri]

\* Option<T>: <<>> is None, <<v>> is Some(v).
Option(S) == {<<>>} \cup {<<v>> : v \in S}

\* copilot::Status.  The five variants render names, plus the variants only the
\* wildcard arms match.
Status ==
    {[tag |-> "SigningIn", prompt |-> p] : p \in Option(PromptUserDeviceFlow)}
      \cup {[tag |-> t] : t \in {"Unauthorized", "Authorized", "Disabled", "SignedOut", "Starting"}}
      \cup {[tag |-> "Error", msg |-> m] : m \in 1..MaxMsg}

VARIABLES
    copilot_status,   \* the provider's own status (copilot.read(cx).status())
    status,           \* CopilotCodeVerification.status
    connect_clicked,  \* CopilotCodeVerification.connect_clicked
    clipboard,        \* the system clipboard: Option(Text)
    copilot_enabled,  \* AllLanguageSettings::get_global(cx).copilot_enabled(None, None)
    view,             \* the element tree returned by the last render
    dismissed,        \* a DismissEvent has been emitted by this instance
    effects,          \* the calls made on cx by the last handler, in order
    last,             \* the handler that ran last
    pre               \* status and connect_clicked before the last handler ran

vars == <<copilot_status, status, connect_clicked, clipboard, copilot_enabled,
          view, dismissed, effects, last, pre>>

\* The calls a handler makes on its context.
Emit == [call |-> "emit", event |-> "DismissEvent"]
Notify == [call |-> "notify"]
Refresh == [call |-> "refresh"]
OpenUrl(url) == [call |-> "open_url", url |-> url]
WriteToClipboard(text) == [call |-> "write_to_clipboard", text |-> text]
UpdateSettingsFile(b) == [call |-> "update_settings_file", show_copilot_suggestions |-> b]

\* Number of calls named c among the effects e.
RECURSIVE Calls(_, _)
Calls(e, c) ==
    IF e = <<>> THEN 0
    ELSE (IF Head(e).call = c THEN 1 ELSE 0) + Calls(Tail(e), c)

\* Every handler records itself and the state it started from.
Ran(name) ==
    /\ last' = name
    /\ pre' = [status |-> status, connect_clicked |-> connect_clicked]

\* No element tree: nothing has been rendered since construction.
NoView == [kind |-> "None"]

----------------------------------------------------------------------------
\* Construction.

\* new, had it emitted a DismissEvent for a status no arm of render names.
new_dismissing ==
    /\ status' = copilot_status
    /\ connect_clicked' = FALSE
    /\ view' = NoView
    /\ IF copilot_status.tag \in {"SigningIn", "Unauthorized", "Authorized", "Disabled", "Error"}
         THEN dismissed' = FALSE /\ effects' = <<>>
         ELSE dismissed' = TRUE /\ effects' = <<Emit>>
    /\ Ran("new")
    /\ UNCHANGED <<copilot_status, clipboard, copilot_enabled>>

new ==
    /\ status' = copilot_status
    /\ connect_clicked' = FALSE
    /\ view' = NoView
    /\ dismissed' = FALSE
    /\ effects' = <<>>
    /\ Ran("new")
    /\ UNCHANGED <<copilot_status, clipboard, copilot_enabled>>

Init ==
    /\ copilot_status \in Status
    /\ status = copilot_status
    /\ connect_clicked = FALSE
    /\ clipboard \in Option(Text)
    /\ copilot_enabled \in BOOLEAN
    /\ view = NoView
    /\ dismissed = FALSE
    /\ effects = <<>>
    /\ last = "new"
    /\ pre = [status |-> copilot_status, connect_clicked |-> FALSE]

----------------------------------------------------------------------------
\* The status subscription.

\* set_status without cx.notify().
set_status_silent(s) ==
    /\ status' = s
    /\ effects' = <<>>

\* set_status that requests the re-render but does not store the status.
set_status_dropping(s) ==
    /\ UNCHANGED status
    /\ effects' = <<Notify>>

set_status(s) ==
    /\ status' = s
    /\ effects' = <<Notify>>

\* observe, with Disabled and Error added to the first arm.
observe_five(s) ==
    /\ copilot_status' = s
    /\ IF s.tag \in {"Authorized", "Unauthorized", "SigningIn", "Disabled", "Error"}
         THEN set_status(s) /\ UNCHANGED dismissed
         ELSE /\ effects' = <<Emit>>
              /\ dismissed' = TRUE
              /\ UNCHANGED status
    /\ Ran("observe")
    /\ UNCHANGED <<connect_clicked, clipboard, copilot_enabled, view>>

\* observe, with the wildcard arm also storing the status and clearing the flag.
observe_storing(s) ==
    /\ copilot_status' = s
    /\ IF s.tag \in {"Authorized", "Unauthorized", "SigningIn"}
         THEN set_status(s) /\ UNCHANGED <<dismissed, connect_clicked>>
         ELSE /\ effects' = <<Emit>>
              /\ dismissed' = TRUE
              /\ status' = s
              /\ connect_clicked' = FALSE
    /\ Ran("observe")
    /\ UNCHANGED <<clipboard, copilot_enabled, view>>

\* observe, with the first arm toggling connect_clicked.
observe_toggling(s) ==
    /\ copilot_status' = s
    /\ IF s.tag \in {"Authorized", "Unauthorized", "SigningIn"}
         THEN set_status(s) /\ connect_clicked' = ~connect_clicked /\ UNCHANGED dismissed
         ELSE /\ effects' = <<Emit>>
              /\ dismissed' = TRUE
              /\ UNCHANGED <<status, connect_clicked>>
    /\ Ran("observe")
    /\ UNCHANGED <<clipboard, copilot_enabled, view>>

\* observe, with Error added to the first arm.
observe_error(s) ==
    /\ copilot_status' = s
    /\ IF s.tag \in {"Authorized", "Unauthorized", "SigningIn", "Error"}
         THEN set_status(s) /\ UNCHANGED dismissed
         ELSE /\ effects' = <<Emit>>
              /\ dismissed' = TRUE
              /\ UNCHANGED status
    /\ Ran("observe")
    /\ UNCHANGED <<connect_clicked, clipboard, copilot_enabled, view>>

\* The provider's status becomes s and the observe callback runs.
observe(s) ==
    /\ copilot_status' = s
    /\ IF s.tag \in {"Authorized", "Unauthorized", "SigningIn"}
         THEN set_status(s) /\ UNCHANGED dismissed
         ELSE /\ effects' = <<Emit>>
              /\ dismissed' = TRUE
              /\ UNCHANGED status
    /\ Ran("observe")
    /\ UNCHANGED <<connect_clicked, clipboard, copilot_enabled, view>>

----------------------------------------------------------------------------
\* Rendering.  Each render_* operator gives the element tree the function
\* returns; the values its closures capture are fields of the tree.

\* render_device_code with unwrap_or(true).
render_device_code_unwrap_true(data, clip) ==
    LET copied == IF clip = <<>> THEN TRUE ELSE clip[1] = data.user_code
    IN  [user_code |-> data.user_code,
         label |-> IF copied THEN "Copied!" ELSE "Copy"]

render_device_code(data, clip) ==
    LET copied == IF clip = <<>> THEN FALSE ELSE clip[1] = data.user_code
    IN  [user_code |-> data.user_code,
         label |-> IF copied THEN "Copied!" ELSE "Copy"]

render_prompting_modal(clicked, data, clip) ==
    LET connect_button_label ==
            IF clicked THEN "Waiting for connection..." ELSE "Connect to GitHub"
    IN  [kind |-> "Prompting",
         device_code |-> render_device_code(data, clip),
         connect_button |-> connect_button_label,
         verification_uri |-> data.verification_uri]

render_enabled_modal == [kind |-> "Enabled", button |-> "Done"]

render_unauthorized_modal == [kind |-> "Unauthorized", button |-> "Subscribe on GitHub"]

\* render_disabled_modal with the test on the setting inverted.
render_disabled_modal_inverted(enabled) ==
    IF enabled
      THEN [kind |-> "Disabled", enable_button |-> TRUE]
      ELSE [kind |-> "Disabled", enable_button |-> FALSE]

render_disabled_modal(enabled) ==
    IF ~enabled
      THEN [kind |-> "Disabled", enable_button |-> TRUE]
      ELSE [kind |-> "Disabled", enable_button |-> FALSE]

render_error_modal == [kind |-> "Error"]

\* div()
Empty == [kind |-> "Empty"]

\* render without the reset of connect_clicked in the Authorized arm.
render_keeping_clicked ==
    /\ IF status.tag = "SigningIn" /\ status.prompt # <<>>
         THEN /\ view' = render_prompting_modal(connect_clicked, status.prompt[1], clipboard)
              /\ UNCHANGED connect_clicked
       ELSE IF status.tag = "Unauthorized"
         THEN /\ connect_clicked' = FALSE
              /\ view' = render_unauthorized_modal
       ELSE IF status.tag = "Authorized"
         THEN /\ UNCHANGED connect_clicked
              /\ view' = render_enabled_modal
       ELSE IF status.tag = "Disabled"
         THEN /\ connect_clicked' = FALSE
              /\ view' = render_disabled_modal(copilot_enabled)
       ELSE IF status.tag = "Error"
         THEN /\ connect_clicked' = FALSE
              /\ view' = render_error_modal
       ELSE /\ view' = Empty
            /\ UNCHANGED connect_clicked
    /\ effects' = <<>>
    /\ Ran("render")
    /\ UNCHANGED <<copilot_status, status, clipboard, copilot_enabled, dismissed>>

\* render with the wildcard arm drawing the error modal instead of div().
render_never_empty ==
    /\ IF status.tag = "SigningIn" /\ status.prompt # <<>>
         THEN /\ view' = render_prompting_modal(connect_clicked, status.prompt[1], clipboard)
              /\ UNCHANGED connect_clicked
       ELSE IF status.tag = "Unauthorized"
         THEN /\ connect_clicked' = FALSE
              /\ view' = render_unauthorized_modal
       ELSE IF status.tag = "Authorized"
         THEN /\ connect_clicked' = FALSE
              /\ view' = render_enabled_modal
       ELSE IF status.tag = "Disabled"
         THEN /\ connect_clicked' = FALSE
              /\ view' = render_disabled_modal(copilot_enabled)
       ELSE IF status.tag = "Error"
         THEN /\ connect_clicked' = FALSE
              /\ view' = render_error_modal
       ELSE /\ view' = render_error_modal
            /\ UNCHANGED connect_clicked
    /\ effects' = <<>>
    /\ Ran("render")
    /\ UNCHANGED <<copilot_status, status, clipboard, copilot_enabled, dismissed>>

\* render with the Error arm putting the message into the view.
render_showing_message ==
    /\ IF status.tag = "SigningIn" /\ status.prompt # <<>>
         THEN /\ view' = render_prompting_modal(connect_clicked, status.prompt[1], clipboard)
              /\ UNCHANGED connect_clicked
       ELSE IF status.tag = "Unauthorized"
         THEN /\ connect_clicked' = FALSE
              /\ view' = render_unauthorized_modal
       ELSE IF status.tag = "Authorized"
         THEN /\ connect_clicked' = FALSE
              /\ view' = render_enabled_modal
       ELSE IF status.tag = "Disabled"
         THEN /\ connect_clicked' = FALSE
              /\ view' = render_disabled_modal(copilot_enabled)
       ELSE IF status.tag = "Error"
         THEN /\ connect_clicked' = FALSE
              /\ view' = [kind |-> "Error", message |-> status.msg]
       ELSE /\ view' = Empty
            /\ UNCHANGED connect_clicked
    /\ effects' = <<>>
    /\ Ran("render")
    /\ UNCHANGED <<copilot_status, status, clipboard, copilot_enabled, dismissed>>

render ==
    /\ IF status.tag = "SigningIn" /\ status.prompt # <<>>
         THEN /\ view' = render_prompting_modal(connect_clicked, status.prompt[1], clipboard)
              /\ UNCHANGED connect_clicked
       ELSE IF status.tag = "Unauthorized"
         THEN /\ connect_clicked' = FALSE
              /\ view' = render_unauthorized_modal
       ELSE IF status.tag = "Authorized"
         THEN /\ connect_clicked' = FALSE
              /\ view' = render_enabled_modal
       ELSE IF status.tag = "Disabled"
         THEN /\ connect_clicked' = FALSE
              /\ view' = render_disabled_modal(copilot_enabled)
       ELSE IF status.tag = "Error"
         THEN /\ connect_clicked' = FALSE
              /\ view' = render_error_modal
       ELSE /\ view' = Empty
            /\ UNCHANGED connect_clicked
    /\ effects' = <<>>
    /\ Ran("render")
    /\ UNCHANGED <<copilot_status, status, clipboard, copilot_enabled, dismissed>>

----------------------------------------------------------------------------
\* The handlers installed by the last render.  Each is enabled while the
\* element that carries it is in the tree.

\* on_mouse_down of the device code row
copy_on_mouse_down ==
    /\ view.kind = "Prompting"
    /\ clipboard' = <<view.device_code.user_code>>
    /\ effects' = <<WriteToClipboard(view.device_code.user_code), Refresh>>
    /\ Ran("copy_on_mouse_down")
    /\ UNCHANGED <<copilot_status, status, connect_clicked, copilot_enabled, view, dismissed>>

\* The Connect handler, had it also put the modal back to SigningIn without a
\* prompt.
connect_on_click_restarting ==
    /\ view.kind = "Prompting"
    /\ effects' = <<OpenUrl(view.verification_uri)>>
    /\ connect_clicked' = TRUE
    /\ status' = [tag |-> "SigningIn", prompt |-> <<>>]
    /\ Ran("connect_on_click")
    /\ UNCHANGED <<copilot_status, clipboard, copilot_enabled, view, dismissed>>

\* on_click of "connect-button"
connect_on_click ==
    /\ view.kind = "Prompting"
    /\ effects' = <<OpenUrl(view.verification_uri)>>
    /\ connect_clicked' = TRUE
    /\ Ran("connect_on_click")
    /\ UNCHANGED <<copilot_status, status, clipboard, copilot_enabled, view, dismissed>>

\* The Done handler, had it also cleared the stored status.
done_on_click_clearing ==
    /\ view.kind = "Enabled"
    /\ effects' = <<Emit>>
    /\ dismissed' = TRUE
    /\ status' = [tag |-> "SignedOut"]
    /\ Ran("done_on_click")
    /\ UNCHANGED <<copilot_status, connect_clicked, clipboard, copilot_enabled, view>>

\* on_click of "copilot-enabled-done-button"
done_on_click ==
    /\ view.kind = "Enabled"
    /\ effects' = <<Emit>>
    /\ dismissed' = TRUE
    /\ Ran("done_on_click")
    /\ UNCHANGED <<copilot_status, status, connect_clicked, clipboard, copilot_enabled, view>>

\* on_click of "copilot-subscribe-button"
subscribe_on_click ==
    /\ view.kind = "Unauthorized"
    /\ effects' = <<OpenUrl(COPILOT_SIGN_UP_URL)>>
    /\ Ran("subscribe_on_click")
    /\ UNCHANGED <<copilot_status, status, connect_clicked, clipboard, copilot_enabled, view, dismissed>>

\* on_click of "copilot-disabled-enable-button".  update_settings_file only
\* schedules the write: the setting read by render changes when the settings
\* store reloads (settings_changed).
enable_on_click ==
    /\ view.kind = "Disabled"
    /\ view.enable_button
    /\ effects' = <<UpdateSettingsFile(TRUE)>>
    /\ Ran("enable_on_click")
    /\ UNCHANGED <<copilot_status, status, connect_clicked, clipboard, copilot_enabled, view, dismissed>>

----------------------------------------------------------------------------
\* The environment: what render reads but the modal does not own.

\* Another writer replaces or clears the clipboard (cx.read_from_clipboard()).
clipboard_changed(c) ==
    /\ clipboard' = c
    /\ effects' = <<>>
    /\ Ran("clipboard_changed")
    /\ UNCHANGED <<copilot_status, status, connect_clicked, copilot_enabled, view, dismissed>>

\* The settings store reloads (AllLanguageSettings::get_global(cx)).
settings_changed(b) ==
    /\ copilot_enabled' = b
    /\ effects' = <<>>
    /\ Ran("settings_changed")
    /\ UNCHANGED <<copilot_status, status, connect_clicked, clipboard, view, dismissed>>

----------------------------------------------------------------------------
Next ==
    \/ new
    \/ \E s \in Status : observe(s)
    \/ render
    \/ copy_on_mouse_down
    \/ connect_on_click
    \/ done_on_click
    \/ subscribe_on_click
    \/ enable_on_click
    \/ \E c \in Option(Text) : clipboard_changed(c)
    \/ \E b \in BOOLEAN : settings_changed(b)

Spec == Init /\ [][Next]_vars

----------------------------------------------------------------------------
\* The modal under its host.  The host consumes the DismissEvent, removes the
\* modal and destroys it; _subscription is a field of the modal and is
\* released with it, so no callback and no handler of that instance runs
\* again.  Only a fresh construction gives a modal again.

\* A host that keeps the dismissed modal and its subscription alive.
host_keeps_modal == FALSE

\* The instance has been destroyed by the host.
host_released == dismissed

\* The provider's status becomes s while no modal is subscribed.
provider_changed(s) ==
    /\ host_released
    /\ copilot_status' = s
    /\ effects' = <<>>
    /\ Ran("provider_changed")
    /\ UNCHANGED <<status, connect_clicked, clipboard, copilot_enabled, view, dismissed>>

NextHosted ==
    \/ new
    \/ ~host_released /\ \E s \in Status : observe(s)
    \/ ~host_released /\ render
    \/ ~host_released /\ copy_on_mouse_down
    \/ ~host_released /\ connect_on_click
    \/ ~host_released /\ done_on_click
    \/ ~host_released /\ subscribe_on_click
    \/ ~host_released /\ enable_on_click
    \/ \E s \in Status : provider_changed(s)
    \/ \E c \in Option(Text) : clipboard_changed(c)
    \/ \E b \in BOOLEAN : settings_changed(b)

SpecHosted == Init /\ [][NextHosted]_vars

----------------------------------------------------------------------------
\* Properties.

\* The variants render has an arm for.
Named == {"SigningIn", "Unauthorized", "Authorized", "Disabled", "Error"}
\* The variants the observe callback passes to set_status.
Kept == {"SigningIn", "Unauthorized", "Authorized"}

Prompting(s) == s.tag = "SigningIn" /\ s.prompt # <<>>

\* C1 (as stated): a pushed status makes the observe callback emit a dismiss
\* signal if and only if the status is outside the five named variants; a
\* push of Disabled or Error emits none.
C1_DismissIffNotNamed ==
    last = "observe" =>
        (Calls(effects, "emit") >= 1 <=> copilot_status.tag \notin Named)

\* C1 (amended): a pushed status makes the observe callback emit a dismiss
\* signal if and only if the status is none of Authorized, Unauthorized,
\* SigningIn; a push of Disabled or Error does emit one.
C1_DismissIffNotKept ==
    last = "observe" =>
        (Calls(effects, "emit") >= 1 <=> copilot_status.tag \notin Kept)

\* C1 witness: a push of Disabled, or of Error, has emitted a dismiss signal.
C1_DisabledPushDismissed ==
    /\ last = "observe"
    /\ copilot_status.tag \in {"Disabled", "Error"}
    /\ effects = <<Emit>>

\* C2: after a push of Authorized, Unauthorized or SigningIn, the stored
\* status is the pushed status, a re-render has been requested and the push
\* has emitted no dismiss signal.
C2_KeptPushStored ==
    (last = "observe" /\ copilot_status.tag \in Kept) =>
        /\ status = copilot_status
        /\ Calls(effects, "notify") >= 1
        /\ Calls(effects, "emit") = 0

\* C2 witness: a push has replaced the prompting status by Authorized.
C2_PushedAuthorized ==
    /\ last = "observe"
    /\ copilot_status.tag = "Authorized"
    /\ Prompting(pre.status)
    /\ status = copilot_status

\* C3: a push of a status outside the five named variants emits exactly one
\* dismiss signal and leaves status and connect_clicked as they were.
C3_UnnamedPushOnlyDismisses ==
    (last = "observe" /\ copilot_status.tag \notin Named) =>
        /\ Calls(effects, "emit") = 1
        /\ status = pre.status
        /\ connect_clicked = pre.connect_clicked

\* C3 witness: SignedOut was pushed to a modal whose Connect had been clicked.
C3_SignedOutPushed ==
    /\ last = "observe"
    /\ copilot_status.tag = "SignedOut"
    /\ pre.connect_clicked
    /\ status # copilot_status

C5_ClickedOnlyWhilePrompting ==
    connect_clicked => Prompting(status)

C7_ConnectOpensCurrentUri ==
    (last = "connect_on_click" /\ Prompting(status)) =>
        /\ connect_clicked
        /\ effects = <<OpenUrl(status.prompt[1].verification_uri)>>

\* C8: after every render of the prompting view the copy label is "Copied!"
\* if and only if the clipboard holds the user_code of the stored prompt; an
\* empty or absent clipboard gives "Copy".
C8_CopiedIffClipboardIsCode ==
    (last = "render" /\ Prompting(status)) =>
        /\ view.kind = "Prompting"
        /\ view.device_code.label \in {"Copied!", "Copy"}
        /\ view.device_code.label = "Copied!"
              <=> clipboard = <<status.prompt[1].user_code>>
        /\ clipboard \in {<<>>, <<0>>} => view.device_code.label = "Copy"

\* C8 witness: a render of the prompting view shows "Copied!" although no copy
\* click has put the code on the clipboard.
C8_RenderedCopied ==
    /\ last = "render"
    /\ Prompting(status)
    /\ clipboard = <<status.prompt[1].user_code>>
    /\ view.device_code.label = "Copied!"

\* C9: a copy click writes the user_code of the prompt in the stored status
\* to the clipboard and forces a re-render.
C9_CopyWritesCurrentCode ==
    (last = "copy_on_mouse_down" /\ Prompting(status)) =>
        /\ clipboard = <<status.prompt[1].user_code>>
        /\ Calls(effects, "refresh") = 1

\* C10: the rendered Disabled view has the "Enable Copilot" button if and only
\* if the setting read at that render is false; a click on it makes exactly
\* one settings write, of show_copilot_suggestions = true, emits no dismiss
\* signal and leaves status and connect_clicked as they were.
C10_EnableButton ==
    /\ (last = "render" /\ status.tag = "Disabled") =>
          /\ view.kind = "Disabled"
          /\ view.enable_button <=> ~copilot_enabled
    /\ last = "enable_on_click" =>
          /\ effects = <<UpdateSettingsFile(TRUE)>>
          /\ status = pre.status
          /\ connect_clicked = pre.connect_clicked

\* C10 witness: the "Enable Copilot" button has been clicked.
C10_EnableClicked ==
    /\ last = "enable_on_click"
    /\ status.tag = "Disabled"
    /\ view.enable_button

\* C11 (as stated): every render of an open modal shows one of the five named
\* views.
C11_OneOfFiveViews ==
    (last = "render" /\ ~dismissed) =>
        view.kind \in {"Prompting", "Unauthorized", "Enabled", "Disabled", "Error"}

\* C11 (amended): every render shows exactly one of six outcomes, fixed by the
\* stored status: the prompting view for SigningIn with a prompt, the
\* Unauthorized, Enabled, Disabled and Error views for the variants of those
\* names, and the empty placeholder for SigningIn without a prompt and for
\* every status outside the five variants.
C11_ViewByStatus ==
    last = "render" =>
        view.kind = CASE Prompting(status) -> "Prompting"
                      [] status.tag = "Unauthorized" -> "Unauthorized"
                      [] status.tag = "Authorized" -> "Enabled"
                      [] status.tag = "Disabled" -> "Disabled"
                      [] status.tag = "Error" -> "Error"
                      [] OTHER -> "Empty"

\* C11 witness: an open modal whose status is SigningIn without a prompt has
\* been rendered as the empty placeholder.
C11_OpenRenderedEmpty ==
    /\ last = "render"
    /\ ~dismissed
    /\ status = [tag |-> "SigningIn", prompt |-> <<>>]
    /\ view.kind = "Empty"

\* The view render draws for the status s.
ViewKind(s) ==
    CASE Prompting(s) -> "Prompting"
      [] s.tag = "Unauthorized" -> "Unauthorized"
      [] s.tag = "Authorized" -> "Enabled"
      [] s.tag = "Disabled" -> "Disabled"
      [] s.tag = "Error" -> "Error"
      [] OTHER -> "Empty"

\* C12: while the modal is open its stored status is the status the provider
\* delivered last (the one read at construction if none was delivered), and
\* every render of an open modal shows the view of that status.
C12_RenderShowsDelivered ==
    /\ ~dismissed => status = copilot_status
    /\ (last = "render" /\ ~dismissed) => view.kind = ViewKind(copilot_status)

\* C12 witness: Unauthorized was delivered to a modal whose Connect had been
\* clicked, and the render that followed shows the Unauthorized view.
C12_DeliveredThenRendered ==
    /\ last = "render"
    /\ ~dismissed
    /\ pre.connect_clicked
    /\ copilot_status.tag = "Unauthorized"
    /\ view.kind = "Unauthorized"

\* C13: once the instance has emitted a dismiss signal, no later push or user
\* event changes its status or connect_clicked, and it emits no further
\* dismiss signal; only a fresh construction gives a modal again.
C13_DismissalOneWay ==
    [][(dismissed /\ last' # "new") =>
          /\ status' = status
          /\ connect_clicked' = connect_clicked
          /\ dismissed'
          /\ Calls(effects', "emit") = 0]_vars

\* C13 witness: the provider's status has changed after the dismissal and the
\* dismissed instance has kept the status it had.
C13_ChangedAfterDismissal ==
    /\ dismissed
    /\ last = "provider_changed"
    /\ status # copilot_status
    /\ copilot_status.tag \in Kept

\* C14: a status delivered a second time in a row leaves status and
\* connect_clicked as the first delivery left them.
C14_RepeatedPushIdempotent ==
    [][(last = "observe" /\ last' = "observe" /\ copilot_status' = copilot_status) =>
          /\ status' = status
          /\ connect_clicked' = connect_clicked]_vars

\* C14 witness: Authorized has been delivered to a modal that already stored
\* a delivered Authorized, with connect_clicked still set from the prompting
\* view; the flag is as it was.
C14_AuthorizedRedelivered ==
    /\ last = "observe"
    /\ copilot_status.tag = "Authorized"
    /\ pre.status = copilot_status
    /\ status = copilot_status
    /\ pre.connect_clicked
    /\ connect_clicked

\* C15: the render that follows a push from SigningIn with a prompt to
\* Authorized shows the Enabled view with its "Done" button; a click on "Done"
\* emits exactly one dismiss signal and changes neither the stored status nor
\* the provider's status.
C15_EnabledThenDone ==
    [][/\ (last = "observe" /\ Prompting(pre.status) /\ status.tag = "Authorized"
              /\ last' = "render")
          => (view'.kind = "Enabled" /\ view'.button = "Done")
       /\ last' = "done_on_click" =>
             /\ Calls(effects', "emit") = 1
             /\ Len(effects') = 1
             /\ status' = status
             /\ copilot_status' = copilot_status]_vars

\* C15 witness: "Done" has been clicked in the Enabled view of a modal whose
\* status is Authorized, and one dismiss signal was emitted.
C15_DoneClicked ==
    /\ last = "done_on_click"
    /\ status.tag = "Authorized"
    /\ copilot_status = status
    /\ view.kind = "Enabled"
    /\ effects = <<Emit>>
    /\ dismissed

\* C16: the render of Error(m) gives the same view and the same modal state
\* for every message m: the view is the fixed error notice, connect_clicked is
\* false and no call is made.
C16_ErrorViewIgnoresMessage ==
    (last = "render" /\ status.tag = "Error") =>
        /\ view = [kind |-> "Error"]
        /\ ~connect_clicked
        /\ effects = <<>>

\* C16 witness: Error with the second message has been rendered as the same
\* fixed notice.
C16_SecondMessageRendered ==
    /\ last = "render"
    /\ status = [tag |-> "Error", msg |-> 2]
    /\ view = [kind |-> "Error"]

\* C17: when the status has gone from SigningIn without a prompt, rendered as
\* the empty placeholder, to SigningIn with a prompt, the render that follows
\* shows "Connect to GitHub", also when Connect had been clicked before the
\* prompt went away.
C17_ConnectLabelResets ==
    [][(/\ last = "observe"
        /\ pre.status = [tag |-> "SigningIn", prompt |-> <<>>]
        /\ view = Empty
        /\ Prompting(status)
        /\ last' = "render")
          => view'.connect_button = "Connect to GitHub"]_vars

\* C18: the stored status of a modal changes only in the observe callback: no
\* click handler and no render changes it, and none of them changes the
\* provider's status.
C18_OnlyObserveStores ==
    [][/\ last' \in {"render", "copy_on_mouse_down", "connect_on_click",
                      "enable_on_click", "done_on_click", "subscribe_on_click"}
            => (status' = status /\ copilot_status' = copilot_status)
       /\ status' # status => last' \in {"observe", "new"}]_vars

\* C18 witness: a Connect click has set connect_clicked and left the stored
\* status and the provider's status alone.
C18_ConnectKeptStatus ==
    /\ last = "connect_on_click"
    /\ connect_clicked
    /\ ~pre.connect_clicked
    /\ status = pre.status
    /\ status = copilot_status
    /\ Prompting(status)

\* C19: after construction every change of the stored status stores
\* Authorized, Unauthorized or SigningIn, so the stored status is the one read
\* at construction or one of these; a render shows the Disabled or the Error
\* view only for a stored Disabled or Error, which no push can have stored.
C19_PushStoresOnlyKept ==
    [][/\ last' # "new" => (status' = status \/ status'.tag \in Kept)
       /\ (last' = "render" /\ view'.kind \in {"Disabled", "Error"})
            => (status'.tag \in {"Disabled", "Error"} /\ status' = status)]_vars

\* C19 witness: Error was pushed to a modal constructed on Disabled; the
\* render that followed still shows the Disabled view.
C19_DisabledFromConstruction ==
    /\ last = "render"
    /\ view.kind = "Disabled"
    /\ status.tag = "Disabled"
    /\ copilot_status.tag = "Error"
====
